---- MODULE Spec2Model ----
(***************************************************************************)
(* Model of cyclonedds.builtin (BuiltinTopic, BuiltinDataReader) and of    *)
(* the `typeof` command of cyclonedds.tools.cli.                           *)
(*                                                                         *)
(* SpecReader : one BuiltinDataReader, its construction, read and take,    *)
(*              over the middleware's cache of built-in discovery samples. *)
(* SpecTypeof : one run of typeof: the scanner thread, the progress        *)
(*              viewer, the join and the presentation of live.result.      *)
(***************************************************************************)
EXTENDS Integers, Sequences, FiniteSets, TLC

VARIABLES
    (* ---- BuiltinDataReader object ---- *)
    rstate,           \* "unconstructed" | "ready" | "failed" (constructor raised)
    _topic,           \* self._topic : the bound BuiltinTopic, or NoTopic
    _ref,             \* self._ref : entity handle of the reader (0 before Entity.__init__)
    _next_condition,  \* handle of self._next_condition (0 while not created)
    _readfn,          \* self._readfn
    _takefn,          \* self._takefn
    _constructor,     \* self._constructor
    cqos_acquired,    \* number of _CQos objects made by _CQos.qos_to_cqos
    cqos_destroyed,   \* number of _CQos.cqos_destroy calls made
    (* ---- middleware side of the reader ---- *)
    cache,            \* sample id -> [sst, vst, ist] : the reader's sample cache
    next_id,          \* id the next arriving sample gets
    taken,            \* history: ids of the samples some take call has returned
    lastCall,         \* the last read/take call: arguments, decoder used, outcome
    (* ---- typeof ---- *)
    pc,               \* position of the invoking context in typeof
    scanner,          \* "idle" | "running" | "resolving" | "stopped" : the
                      \* type_discovery thread
    pending,          \* the sample whose type identifier is being resolved
    now,              \* elapsed time since the scan started, in ticks
    entries,          \* Live Aggregation Store: fingerprint -> [source, participants]
    progress,         \* progress counter of the store (samples observed)
    rendered,         \* what the progress viewer last rendered (entry count)
    result,           \* live.result
    console,          \* what typeof printed after the join, in order
    inserted,         \* history: fingerprint -> participants whose insert was made
    skipped,          \* history: ordinals of the samples whose resolution failed
    (* ---- condition masks ---- *)
    mask_in,          \* the masks handed to the composition, <<a, b, c>>
    mask_out          \* the compositions computed from them, or NoMasks

readerVars == <<rstate, _topic, _ref, _next_condition, _readfn, _takefn,
                _constructor, cqos_acquired, cqos_destroyed>>
mwVars     == <<cache, next_id, taken, lastCall>>
histVars   == <<inserted, skipped>>
typeofVars == <<pc, scanner, pending, now, entries, progress, rendered, result, console,
                histVars>>
maskVars   == <<mask_in, mask_out>>
vars       == <<readerVars, mwVars, typeofVars, maskVars>>

(***************************************************************************)
(* Bounds                                                                  *)
(***************************************************************************)
MaxSamples == 2      \* discovery samples that arrive in the reader's cache
MaxN       == 2      \* largest max_count a caller passes
Runtime    == 2      \* the scan duration (--runtime), in ticks
MaxSeen    == 3      \* matching samples the scanner observes in one scan

(***************************************************************************)
(* Built-in topic descriptors (builtin.py 33-41, 156-171)                  *)
(***************************************************************************)
_pseudo_handle == 2147418112     \* 0x7fff0000

BuiltinTopic(ref, data_type) == [_ref |-> ref, data_type |-> data_type]

BuiltinTopicDcpsParticipant  == BuiltinTopic(_pseudo_handle + 1, "DcpsParticipant")

\* A plausible slip: a handle offset used twice.
BuiltinTopicDcpsTopic_ParticipantHandle == BuiltinTopic(_pseudo_handle + 1, "DcpsEndpoint")

BuiltinTopicDcpsTopic        == BuiltinTopic(_pseudo_handle + 2, "DcpsEndpoint")
BuiltinTopicDcpsPublication  == BuiltinTopic(_pseudo_handle + 3, "DcpsEndpoint")
BuiltinTopicDcpsSubscription == BuiltinTopic(_pseudo_handle + 4, "DcpsEndpoint")

Descriptors == {BuiltinTopicDcpsParticipant, BuiltinTopicDcpsTopic,
                BuiltinTopicDcpsPublication, BuiltinTopicDcpsSubscription}

NoTopic == BuiltinTopic(0, "none")
NoFn    == "none"

(***************************************************************************)
(* Condition masks (cyclonedds.core ViewState / SampleState /              *)
(* InstanceState): a mask is a set of flags, composed by union.  An axis   *)
(* with no flag set does not restrict that axis.                           *)
(***************************************************************************)
SampleStateFlags   == {"Read", "NotRead"}
ViewStateFlags     == {"New", "Old"}
InstanceStateFlags == {"Alive", "NotAliveDisposed", "NotAliveNoWriters"}

SampleState_Any   == SampleStateFlags
ViewState_Any     == ViewStateFlags
InstanceState_Any == InstanceStateFlags

\* A plausible slip: "&" written for "|".
MaskUnion_Intersect(a, b) == a \cap b

MaskUnion(a, b) == a \cup b

\* {Any, Any, Any}: every flag of every axis.
AnyMask == ViewState_Any \cup SampleState_Any \cup InstanceState_Any

\* What one axis of a mask may hold: nothing, one flag, or Any.
AxisChoices(axis) == {{}} \cup {{f} : f \in axis} \cup {axis}

\* The masks over the three axes.
Masks ==
    {v \cup s \cup i :
        v \in AxisChoices(ViewStateFlags),
        s \in AxisChoices(SampleStateFlags),
        i \in AxisChoices(InstanceStateFlags)}

AxisMatches(value, mask, axis) == (mask \cap axis = {}) \/ (value \in mask)

Matches(s, mask) ==
    /\ AxisMatches(s.sst, mask, SampleStateFlags)
    /\ AxisMatches(s.vst, mask, ViewStateFlags)
    /\ AxisMatches(s.ist, mask, InstanceStateFlags)

\* builtin.py 85: ViewState.Any | SampleState.NotRead | InstanceState.Any
NextConditionMask ==
    MaskUnion(MaskUnion(ViewState_Any, {"NotRead"}), InstanceState_Any)

\* Conditions a caller may hand to read/take, by index; 0 is "no condition".
UserConditions == << {"Read"}, {"NotRead", "Alive"} >>

(***************************************************************************)
(* Entity handles.  A successful dds_create_reader gives a positive        *)
(* handle; a failing one gives a negative return code, on which            *)
(* Entity.__init__ raises.  Conditions are entities of their own.          *)
(***************************************************************************)
ErrCodes      == {-1, -3}        \* DDS_RETCODE_ERROR, DDS_RETCODE_BAD_PARAMETER
ReaderHandles == {1}

ConditionHandle(reader, c) == reader + 1 + c

\* The mask the middleware applies for the entity a read/take is issued on:
\* a condition selects by its mask, the reader itself selects every sample.
MaskOf(ref) ==
    IF ref = _ref THEN {}
    ELSE IF ref = _next_condition THEN NextConditionMask
    ELSE UserConditions[ref - _ref - 1]

(***************************************************************************)
(* The middleware's decode primitives (the six ddspy_read_X / ddspy_take_X *)
(* of cyclonedds._clayer): called as fn(ref, N, constructor, cqos_conv),   *)
(* they give either a list of decoded records or an integer status code.   *)
(***************************************************************************)
ReadFns == {"ddspy_read_participant", "ddspy_read_topic", "ddspy_read_endpoint"}
TakeFns == {"ddspy_take_participant", "ddspy_take_topic", "ddspy_take_endpoint"}

KindOfFn(fn) ==
    IF fn \in {"ddspy_read_participant", "ddspy_take_participant"} THEN "participant"
    ELSE IF fn \in {"ddspy_read_topic", "ddspy_take_topic"} THEN "topic"
    ELSE "endpoint"

KindOfConstructor(c) ==
    IF c = "participant_constructor" THEN "participant"
    ELSE IF c = "topic_constructor" THEN "topic"
    ELSE "endpoint"

\* The record type each constructor of builtin_types builds.
ShapeOf(c) ==
    IF c = "participant_constructor" THEN "DcpsParticipant"
    ELSE IF c = "topic_constructor" THEN "DcpsTopic"
    ELSE "DcpsEndpoint"

\* The n smallest members of S, in increasing order.
RECURSIVE FirstN(_, _)
FirstN(S, n) ==
    IF n <= 0 \/ S = {} THEN << >>
    ELSE LET m == CHOOSE x \in S : \A y \in S : x <= y
         IN  <<m>> \o FirstN(S \ {m}, n - 1)

\* The samples one call selects: the oldest N of those matching the mask.
Selected(ref, N) ==
    FirstN({i \in DOMAIN cache : Matches(cache[i], MaskOf(ref))}, N)

Range(q) == {q[i] : i \in DOMAIN q}

\* One call of a decode primitive.  mw is the status of the underlying
\* dds_read / dds_take: 0 (DDS_RETCODE_OK) or a negative return code, which
\* the primitive hands back as an integer.  Otherwise it returns the list of
\* the selected samples, each built by the constructor; a read marks the
\* returned samples read and their instances seen, a take removes them.
\*   ret   : what the call returns
\*   cache : what the call leaves in the cache
\*   info  : the state each selected sample was in when it was selected
\*   count : the maximum number of samples the primitive was handed
ddspy(fn, ref, N, constructor, mw) ==
    IF mw < 0
    THEN [ret   |-> [type |-> "int", code |-> mw, list |-> << >>],
          cache |-> cache,
          info  |-> << >>,
          count |-> N]
    ELSE LET sel == Selected(ref, N)
         IN  [ret   |-> [type |-> "list", code |-> 0,
                         list |-> [i \in DOMAIN sel |->
                                      [id |-> sel[i], shape |-> ShapeOf(constructor)]]],
              cache |-> IF fn \in TakeFns
                        THEN [i \in DOMAIN cache \ Range(sel) |-> cache[i]]
                        ELSE [i \in DOMAIN cache |->
                                 IF i \in Range(sel)
                                 THEN [cache[i] EXCEPT !.sst = "Read", !.vst = "Old"]
                                 ELSE cache[i]],
              info  |-> [i \in DOMAIN sel |-> cache[sel[i]]],
              count |-> N]

Ids(list) == {list[i].id : i \in DOMAIN list}

\* A discovery sample arrives in the reader's cache.
Arrive(v, i) ==
    /\ rstate = "ready"
    /\ next_id <= MaxSamples
    /\ cache' = [k \in DOMAIN cache \cup {next_id} |->
                    IF k = next_id THEN [sst |-> "NotRead", vst |-> v, ist |-> i]
                    ELSE cache[k]]
    /\ next_id' = next_id + 1
    /\ UNCHANGED <<readerVars, taken, lastCall, typeofVars, maskVars>>

(***************************************************************************)
(* BuiltinDataReader                                                       *)
(***************************************************************************)
\* A plausible slip: the topic branch is missing, so the topic descriptor
\* falls through to the endpoint triple.
_make_constructors_NoTopicBranch(topic) ==
    IF topic = BuiltinTopicDcpsParticipant
    THEN [readfn      |-> "ddspy_read_participant",
          takefn      |-> "ddspy_take_participant",
          constructor |-> "participant_constructor"]
    ELSE [readfn      |-> "ddspy_read_endpoint",
          takefn      |-> "ddspy_take_endpoint",
          constructor |-> "endpoint_constructor"]

\* builtin.py 91-104: the decode triple for a bound topic.
_make_constructors(topic) ==
    IF topic = BuiltinTopicDcpsParticipant
    THEN [readfn      |-> "ddspy_read_participant",
          takefn      |-> "ddspy_take_participant",
          constructor |-> "participant_constructor"]
    ELSE IF topic = BuiltinTopicDcpsTopic
    THEN [readfn      |-> "ddspy_read_topic",
          takefn      |-> "ddspy_take_topic",
          constructor |-> "topic_constructor"]
    ELSE [readfn      |-> "ddspy_read_endpoint",
          takefn      |-> "ddspy_take_endpoint",
          constructor |-> "endpoint_constructor"]

\* builtin.py 50-89.  qos: whether a Qos is supplied; h: what
\* dds_create_reader returns; cond_ok: whether ReadCondition(...) succeeds.
\* Entity.__init__ raises on a negative handle.  Nothing catches either
\* exception, so the statements after the raising one are not executed.
__init__(builtin_topic, qos, h, cond_ok) ==
    /\ rstate = "unconstructed"
    /\ _topic' = builtin_topic
    /\ cqos_acquired' = cqos_acquired + (IF qos THEN 1 ELSE 0)
    /\ IF h < 0
       THEN /\ rstate' = "failed"
            /\ UNCHANGED <<_ref, _next_condition, cqos_destroyed,
                           _readfn, _takefn, _constructor>>
       ELSE /\ _ref' = h
            /\ IF ~cond_ok
               THEN /\ rstate' = "failed"
                    /\ UNCHANGED <<_next_condition, cqos_destroyed,
                                   _readfn, _takefn, _constructor>>
               ELSE /\ _next_condition' = h + 1
                    /\ cqos_destroyed' = cqos_destroyed + (IF qos THEN 1 ELSE 0)
                    /\ _readfn' = _make_constructors(builtin_topic).readfn
                    /\ _takefn' = _make_constructors(builtin_topic).takefn
                    /\ _constructor' = _make_constructors(builtin_topic).constructor
                    /\ rstate' = "ready"
    /\ UNCHANGED <<mwVars, typeofVars, maskVars>>

\* A plausible slip: a call without a condition goes through the default
\* condition made at construction.
RefOf_DefaultCondition(condition) ==
    IF condition # 0 THEN ConditionHandle(_ref, condition) ELSE _next_condition

\* builtin.py 123 / 147: ref = condition._ref if condition else self._ref
RefOf(condition) ==
    IF condition # 0 THEN ConditionHandle(_ref, condition) ELSE _ref

\* A plausible slip: only the generic error code is taken for a failure.
IsStatusCode_OnlyError(ret) == ret.type = "int" /\ ret.code = 0 - 1

\* builtin.py 126 / 150: type(ret) == int
IsStatusCode(ret) == ret.type = "int"

\* A plausible slip: a count below one is raised to one before the call.
InvokeEffects_ClampsCount(op, fn, condition, N, mw, msg) ==
    \E ref \in {RefOf(condition)} :
    \E r \in {ddspy(fn, ref, IF N <= 0 THEN 1 ELSE N, _constructor, mw)} :
    \E raise \in {IsStatusCode(r.ret)} :
        /\ cache' = r.cache
        /\ taken' = IF op = "take" THEN taken \cup Ids(r.ret.list) ELSE taken
        /\ lastCall' =
              [op |-> op, condition |-> condition, ref |-> ref, N |-> N,
               fn |-> fn, ctor |-> _constructor, ret |-> r.ret,
               raised |-> raise,
               code   |-> IF raise THEN r.ret.code ELSE 0,
               msg    |-> IF raise THEN msg ELSE "none",
               list   |-> IF raise THEN << >> ELSE r.ret.list,
               info   |-> r.info,
               passed |-> r.count]
        /\ UNCHANGED <<next_id, typeofVars, maskVars>>

\* The body read and take share (builtin.py 123-129, 147-153): one call of
\* the decoder fn on ref, then raise DDSException(ret, "Occurred when
\* calling <msg>() ...") or return ret.  lastCall records the call: its
\* arguments, what the decoder returned (ret), the outcome the caller sees,
\* and (info) the state each selected sample was in when it was selected,
\* and (passed) the count the decoder was handed.
InvokeEffects(op, fn, condition, N, mw, msg) ==
    \E ref \in {RefOf(condition)} :
    \E r \in {ddspy(fn, ref, N, _constructor, mw)} :
    \E raise \in {IsStatusCode(r.ret)} :
        /\ cache' = r.cache
        /\ taken' = IF op = "take" THEN taken \cup Ids(r.ret.list) ELSE taken
        /\ lastCall' =
              [op |-> op, condition |-> condition, ref |-> ref, N |-> N,
               fn |-> fn, ctor |-> _constructor, ret |-> r.ret,
               raised |-> raise,
               code   |-> IF raise THEN r.ret.code ELSE 0,
               msg    |-> IF raise THEN msg ELSE "none",
               list   |-> IF raise THEN << >> ELSE r.ret.list,
               info   |-> r.info,
               passed |-> r.count]
        /\ UNCHANGED <<next_id, typeofVars, maskVars>>

Invoke(op, fn, condition, N, mw, msg) ==
    /\ InvokeEffects(op, fn, condition, N, mw, msg)
    /\ UNCHANGED readerVars

\* A plausible slip: read calls the take decoder.
read_UsingTakefn(N, condition, mw) ==
    /\ rstate = "ready"
    /\ Invoke("read", _takefn, condition, N, mw, "read")

\* builtin.py 106-129
read(N, condition, mw) ==
    /\ rstate = "ready"
    /\ Invoke("read", _readfn, condition, N, mw, "read")

\* A plausible slip: take calls the read decoder.
take_UsingReadfn(N, condition, mw) ==
    /\ rstate = "ready"
    /\ Invoke("take", _readfn, condition, N, mw, "read")

\* A plausible slip: the decoders are looked up again on a call, and the
\* take decoder lands in the read slot.
take_Redispatch(N, condition, mw) ==
    /\ rstate = "ready"
    /\ InvokeEffects("take", _takefn, condition, N, mw, "read")
    /\ _readfn' = _takefn
    /\ UNCHANGED <<rstate, _topic, _ref, _next_condition, _takefn, _constructor,
                   cqos_acquired, cqos_destroyed>>

\* builtin.py 131-153; line 151 words the exception "calling read()".
take(N, condition, mw) ==
    /\ rstate = "ready"
    /\ Invoke("take", _takefn, condition, N, mw, "read")

NoCall == [op |-> "none", condition |-> 0, ref |-> 0, N |-> 0, fn |-> NoFn,
           ctor |-> NoFn, ret |-> [type |-> "list", code |-> 0, list |-> << >>],
           raised |-> FALSE, code |-> 0, msg |-> "none", list |-> << >>,
           info |-> << >>, passed |-> 0]

(***************************************************************************)
(* typeof (tools/cli/typeof.py) with its collaborators: LiveData, the      *)
(* type_discovery thread and background_progress_viewer.                   *)
(***************************************************************************)
Participants == {"p1", "p2"}
Fingerprints == {"X", "Y", "Z"}

\* The source text the XTypes resolver reconstructs from a fingerprint:
\* X and Y are different fingerprints of the same text.
SourceOf(f) == IF f = "Z" THEN "struct Foo { long b; };" ELSE "struct Foo { long a; };"

NoSample == [participant |-> "none", type_id |-> "none"]

\* The store's entry count, as the progress viewer reads it.
EntryCount == Cardinality(DOMAIN entries)

\* A plausible slip: the insert replaces the participant set (a lost update).
InsertEntry_Overwrite(f, src, p) ==
    [g \in DOMAIN entries \cup {f} |->
        IF g = f THEN [source |-> src, participants |-> {p}] ELSE entries[g]]

\* A plausible slip: the insert rebuilds the store with the one entry.
InsertEntry_DropsOthers(f, src, p) ==
    [g \in {f} |->
        [source |-> src,
         participants |-> (IF f \in DOMAIN entries
                           THEN entries[f].participants ELSE {}) \cup {p}]]

\* Store insert: the entry of fingerprint f gains participant p.
InsertEntry(f, src, p) ==
    [g \in DOMAIN entries \cup {f} |->
        IF g = f
        THEN [source |-> src,
              participants |-> (IF f \in DOMAIN entries
                                THEN entries[f].participants ELSE {}) \cup {p}]
        ELSE entries[g]]

\* live.result, a list of (type, code, participants): the participant joins
\* the group of the same source text, or a new group is appended.
InsertResult(f, src, p) ==
    IF \E i \in DOMAIN result : result[i].code = src
    THEN [i \in DOMAIN result |->
             IF result[i].code = src
             THEN [result[i] EXCEPT !.pp = @ \cup {p}]
             ELSE result[i]]
    ELSE Append(result, [type |-> f, code |-> src, pp |-> {p}])

\* A plausible slip: the thread is made but not started.
Start_NoThread ==
    /\ pc = "start"
    /\ pc' = "viewing"
    /\ UNCHANGED <<readerVars, mwVars, maskVars, histVars, scanner, pending, now,
                   entries, progress, rendered, result, console>>

\* typeof.py 35-39: live = LiveData(console); thread.start()
Start ==
    /\ pc = "start"
    /\ scanner' = "running"
    /\ pc' = "viewing"
    /\ UNCHANGED <<readerVars, mwVars, maskVars, histVars, pending, now, entries, progress,
                   rendered, result, console>>

\* Time passes while the scan runs.
Tick ==
    /\ pc # "start"
    /\ now < Runtime
    /\ now' = now + 1
    /\ UNCHANGED <<readerVars, mwVars, maskVars, histVars, pc, scanner, pending, entries, progress,
                   rendered, result, console>>

\* The scanner takes an endpoint sample; one of the target topic that
\* carries a type identifier goes to resolution, any other is dropped.
ScanTake(p, f, matches) ==
    /\ scanner = "running"
    /\ now < Runtime
    /\ progress < MaxSeen
    /\ IF matches
       THEN /\ scanner' = "resolving"
            /\ pending' = [participant |-> p, type_id |-> f]
            /\ progress' = progress + 1
       ELSE UNCHANGED <<scanner, pending, progress>>
    /\ UNCHANGED <<readerVars, mwVars, maskVars, histVars, pc, now, entries, rendered, result, console>>

\* A plausible slip: a failed resolution leaves an entry without a source
\* and without participants.
Resolve_PartialOnFailure(ok) ==
    /\ scanner = "resolving"
    /\ scanner' = "running"
    /\ pending' = NoSample
    /\ IF ok
       THEN /\ entries' = InsertEntry(pending.type_id, SourceOf(pending.type_id),
                                      pending.participant)
            /\ result' = InsertResult(pending.type_id, SourceOf(pending.type_id),
                                      pending.participant)
            /\ inserted' = [inserted EXCEPT ![pending.type_id] =
                                                @ \cup {pending.participant}]
            /\ UNCHANGED skipped
       ELSE /\ entries' = [g \in DOMAIN entries \cup {pending.type_id} |->
                              IF g \in DOMAIN entries THEN entries[g]
                              ELSE [source |-> "", participants |-> {}]]
            /\ skipped' = skipped \cup {progress}
            /\ UNCHANGED <<result, inserted>>
    /\ UNCHANGED <<readerVars, mwVars, maskVars, pc, now, progress, rendered, console>>

\* The resolution of the pending type identifier returns: on success the
\* store gains the participant, on failure the sample is skipped.
Resolve(ok) ==
    /\ scanner = "resolving"
    /\ scanner' = "running"
    /\ pending' = NoSample
    /\ IF ok
       THEN /\ entries' = InsertEntry(pending.type_id, SourceOf(pending.type_id),
                                      pending.participant)
            /\ result' = InsertResult(pending.type_id, SourceOf(pending.type_id),
                                      pending.participant)
            /\ inserted' = [inserted EXCEPT ![pending.type_id] =
                                                @ \cup {pending.participant}]
            /\ UNCHANGED skipped
       ELSE /\ skipped' = skipped \cup {progress}
            /\ UNCHANGED <<entries, result, inserted>>
    /\ UNCHANGED <<readerVars, mwVars, maskVars, pc, now, progress, rendered, console>>

\* The scan's duration has elapsed: the thread's target returns.
ScanStop ==
    /\ scanner = "running"
    /\ now >= Runtime
    /\ scanner' = "stopped"
    /\ UNCHANGED <<readerVars, mwVars, maskVars, histVars, pc, pending, now, entries, progress,
                   rendered, result, console>>

\* typeof.py 42: background_progress_viewer renders the store's counts.
Poll ==
    /\ pc = "viewing"
    /\ now < Runtime
    /\ rendered' = EntryCount
    /\ UNCHANGED <<readerVars, mwVars, maskVars, histVars, pc, scanner, pending, now, entries,
                   progress, result, console>>

\* typeof.py 42: background_progress_viewer returns when runtime has elapsed.
ViewerReturn ==
    /\ pc = "viewing"
    /\ now >= Runtime
    /\ pc' = "joining"
    /\ UNCHANGED <<readerVars, mwVars, maskVars, histVars, scanner, pending, now, entries, progress,
                   rendered, result, console>>

\* A plausible slip: the thread is not waited for.
Join_NoWait ==
    /\ pc = "joining"
    /\ pc' = "presenting"
    /\ UNCHANGED <<readerVars, mwVars, maskVars, histVars, scanner, pending, now, entries, progress,
                   rendered, result, console>>

\* typeof.py 44: thread.join() returns once the thread has terminated.
Join ==
    /\ pc = "joining"
    /\ scanner = "stopped"
    /\ pc' = "presenting"
    /\ UNCHANGED <<readerVars, mwVars, maskVars, histVars, scanner, pending, now, entries, progress,
                   rendered, result, console>>

Notice  == [kind |-> "notice", code |-> "No types could be discovered over XTypes",
            pp |-> {}]
Warning == [kind |-> "warning", code |-> "Multiple type definitions exist", pp |-> {}]

\* A plausible slip: the warning's threshold is off by one.
Presentation_WarnOnOne(res) ==
    (IF res = << >> THEN <<Notice>>
     ELSE IF Len(res) >= 1 THEN <<Warning>>
     ELSE << >>)
    \o [i \in DOMAIN res |-> [kind |-> "group", code |-> res[i].code, pp |-> res[i].pp]]

\* A plausible slip: the warning is decided by the number of participants
\* rather than by the number of groups.
Presentation_WarnOnParticipants(res) ==
    (IF res = << >> THEN <<Notice>>
     ELSE IF Len(res) > 1 \/ (\E i \in DOMAIN res : Cardinality(res[i].pp) > 1)
     THEN <<Warning>>
     ELSE << >>)
    \o [i \in DOMAIN res |-> [kind |-> "group", code |-> res[i].code, pp |-> res[i].pp]]

\* typeof.py 46-60: what is printed for a given live.result.
Presentation(res) ==
    (IF res = << >> THEN <<Notice>>
     ELSE IF Len(res) > 1 THEN <<Warning>>
     ELSE << >>)
    \o [i \in DOMAIN res |-> [kind |-> "group", code |-> res[i].code, pp |-> res[i].pp]]

\* typeof.py 46-60
Present ==
    /\ pc = "presenting"
    /\ console' = Presentation(result)
    /\ pc' = "done"
    /\ UNCHANGED <<readerVars, mwVars, maskVars, histVars, scanner, pending, now, entries, progress,
                   rendered, result>>

InitReader ==
    /\ rstate = "unconstructed"
    /\ _topic = NoTopic
    /\ _ref = 0
    /\ _next_condition = 0
    /\ _readfn = NoFn
    /\ _takefn = NoFn
    /\ _constructor = NoFn
    /\ cqos_acquired = 0
    /\ cqos_destroyed = 0
    /\ cache = << >>
    /\ next_id = 1
    /\ taken = {}
    /\ lastCall = NoCall

InitTypeof ==
    /\ pc = "start"
    /\ scanner = "idle"
    /\ pending = NoSample
    /\ now = 0
    /\ entries = << >>
    /\ progress = 0
    /\ rendered = 0
    /\ result = << >>
    /\ console = << >>
    /\ inserted = [f \in Fingerprints |-> {}]
    /\ skipped = {}

NoMasks == [ab |-> {}, ba |-> {}, aa |-> {}, ab_c |-> {}, a_bc |-> {},
            any_a |-> {}, a_any |-> {}, done |-> FALSE]

InitMaskIdle ==
    /\ mask_in = <<{}, {}, {}>>
    /\ mask_out = NoMasks

Init == InitReader /\ InitTypeof /\ InitMaskIdle

\* Three masks a, b, c to be composed, drawn from every mask.
InitMask ==
    /\ InitReader
    /\ InitTypeof
    /\ mask_in \in Masks \X Masks \X Masks
    /\ mask_out = NoMasks

\* The compositions by "|" of the three masks, as builtin.py 85 composes
\* the mask of the default condition.
Compose ==
    /\ ~mask_out.done
    /\ mask_out' =
         [ab    |-> MaskUnion(mask_in[1], mask_in[2]),
          ba    |-> MaskUnion(mask_in[2], mask_in[1]),
          aa    |-> MaskUnion(mask_in[1], mask_in[1]),
          ab_c  |-> MaskUnion(MaskUnion(mask_in[1], mask_in[2]), mask_in[3]),
          a_bc  |-> MaskUnion(mask_in[1], MaskUnion(mask_in[2], mask_in[3])),
          any_a |-> MaskUnion(AnyMask, mask_in[1]),
          a_any |-> MaskUnion(mask_in[1], AnyMask),
          done  |-> TRUE]
    /\ UNCHANGED <<readerVars, mwVars, typeofVars, mask_in>>

NextMask == Compose

SpecMask == InitMask /\ [][NextMask]_vars

Counts     == 0..MaxN
Conditions == 0..Len(UserConditions)
Statuses   == {0} \cup ErrCodes

NextReader ==
    \/ \E t \in Descriptors, qos \in BOOLEAN, h \in ReaderHandles \cup ErrCodes,
          cond_ok \in BOOLEAN : __init__(t, qos, h, cond_ok)
    \/ \E v \in {"New"}, i \in {"Alive", "NotAliveDisposed"} : Arrive(v, i)
    \/ \E N \in Counts, c \in Conditions, mw \in Statuses : read(N, c, mw)
    \/ \E N \in Counts, c \in Conditions, mw \in Statuses : take(N, c, mw)

SpecReader == Init /\ [][NextReader]_vars

NextTypeof ==
    \/ Start
    \/ Tick
    \/ \E p \in Participants, f \in Fingerprints, m \in BOOLEAN : ScanTake(p, f, m)
    \/ \E ok \in BOOLEAN : Resolve(ok)
    \/ ScanStop
    \/ Poll
    \/ ViewerReturn
    \/ Join
    \/ Present

SpecTypeof == Init /\ [][NextTypeof]_vars

\* The run under the scheduling the claim of termination supposes: the
\* invoking context and the thread keep running, time passes, a resolution
\* returns, and scanner and viewer stop once the duration has elapsed.
SpecTypeofFair ==
    /\ SpecTypeof
    /\ WF_vars(Start)
    /\ WF_vars(Tick)
    /\ WF_vars(\E ok \in BOOLEAN : Resolve(ok))
    /\ WF_vars(ScanStop)
    /\ WF_vars(ViewerReturn)
    /\ WF_vars(Join)
    /\ WF_vars(Present)

(***************************************************************************)
(* Properties                                                              *)
(***************************************************************************)
Presenting == pc \in {"presenting", "done"}

\* A step of the reader that is a read or take call.
CallStep ==
    /\ rstate = "ready"
    /\ next_id' = next_id
    /\ <<cache, taken, lastCall>>' # <<cache, taken, lastCall>>

\* C1: whenever typeof has got past thread.join() (it is presenting or has
\* presented live.result), the progress viewer has returned and the scanner
\* thread has stopped, and from then on no step changes the store (its
\* entries, its progress counter, live.result).
C1_JoinedBeforePresentation ==
    /\ [](Presenting => (scanner = "stopped" /\ now >= Runtime))
    /\ [][Presenting => UNCHANGED <<entries, progress, result>>]_vars

C1_Witness ==
    /\ pc = "done"
    /\ scanner = "stopped"
    /\ Len(result) > 0
    /\ progress > 1

\* C2: a read or take call never returns a sample that an earlier take call
\* on the reader has returned.
C2_TakeConsumes ==
    [][CallStep => Ids(lastCall'.list) \cap taken = {}]_vars

C2_Witness ==
    /\ taken # {}
    /\ lastCall.op = "read"
    /\ lastCall.list # << >>
    /\ Ids(lastCall.list) \cap taken = {}

\* C3: a read call leaves the set of cached samples as it was, so every
\* sample it returns is still cached after the call.
C3_ReadKeepsSamples ==
    [][(CallStep /\ lastCall'.op = "read")
          => (/\ DOMAIN cache' = DOMAIN cache
              /\ Ids(lastCall'.list) \subseteq DOMAIN cache')]_vars

C3_Witness ==
    /\ lastCall.op = "read"
    /\ Len(lastCall.list) > 1
    /\ Ids(lastCall.list) \subseteq DOMAIN cache

\* C4 as stated: a call without a condition returns only samples matching
\* the default condition (any view state, not read, any instance state); a
\* call with a condition returns only samples matching that condition.
C4_DefaultConditionSelects ==
    lastCall.op # "none" =>
        \A i \in DOMAIN lastCall.info :
            Matches(lastCall.info[i],
                    IF lastCall.condition = 0 THEN NextConditionMask
                    ELSE UserConditions[lastCall.condition])

\* C4 as amended: a call without a condition is issued on the reader's own
\* handle, not on the default condition, and is not restricted to unread
\* samples; a call with a condition is issued on that condition and returns
\* only samples matching it.
C4_ReaderHandleSelects ==
    lastCall.op # "none" =>
        /\ lastCall.condition = 0 =>
              (lastCall.ref = _ref /\ lastCall.ref # _next_condition)
        /\ lastCall.condition # 0 =>
              /\ lastCall.ref = ConditionHandle(_ref, lastCall.condition)
              /\ \A i \in DOMAIN lastCall.info :
                    Matches(lastCall.info[i], UserConditions[lastCall.condition])

C4_Witness ==
    /\ lastCall.op = "read"
    /\ lastCall.condition = 0
    /\ \E i \in DOMAIN lastCall.info : lastCall.info[i].sst = "Read"

\* C5: a constructed reader holds the triple of its descriptor: participant
\* gives the participant triple, topic the topic triple, publication and
\* subscription the endpoint triple; the three members are of one kind.
C5_TripleByDescriptor ==
    rstate = "ready" =>
        /\ _topic \in Descriptors
        /\ _topic = BuiltinTopicDcpsParticipant =>
              <<_readfn, _takefn, _constructor>> =
              <<"ddspy_read_participant", "ddspy_take_participant",
                "participant_constructor">>
        /\ _topic = BuiltinTopicDcpsTopic =>
              <<_readfn, _takefn, _constructor>> =
              <<"ddspy_read_topic", "ddspy_take_topic", "topic_constructor">>
        /\ _topic \in {BuiltinTopicDcpsPublication, BuiltinTopicDcpsSubscription} =>
              <<_readfn, _takefn, _constructor>> =
              <<"ddspy_read_endpoint", "ddspy_take_endpoint", "endpoint_constructor">>
        /\ _readfn \in ReadFns
        /\ _takefn \in TakeFns
        /\ KindOfFn(_readfn) = KindOfFn(_takefn)
        /\ KindOfFn(_readfn) = KindOfConstructor(_constructor)

C5_Witness ==
    /\ rstate = "ready"
    /\ _topic = BuiltinTopicDcpsTopic
    /\ _constructor = "topic_constructor"

\* C6: once the reader is constructed no step changes its bound descriptor
\* or its decode triple, every read call has used the read decoder and the
\* constructor the reader holds, and every take call the take decoder.
C6_TripleNeverChanges ==
    /\ [][rstate = "ready" =>
            UNCHANGED <<_topic, _readfn, _takefn, _constructor>>]_vars
    /\ [](lastCall.op = "read" =>
            (lastCall.fn = _readfn /\ lastCall.ctor = _constructor))
    /\ [](lastCall.op = "take" =>
            (lastCall.fn = _takefn /\ lastCall.ctor = _constructor))

C6_Witness ==
    /\ rstate = "ready"
    /\ taken # {}
    /\ lastCall.op = "take"
    /\ lastCall.raised
    /\ lastCall.condition # 0
    /\ lastCall.fn = _takefn

\* C7: a read or take call raises exactly when the decoder returned a
\* status code, the error carries that code, and when the decoder returned
\* a list (empty or not) the call returns that list.
C7_RaisesOnStatusCode ==
    lastCall.op # "none" =>
        /\ lastCall.raised <=> (lastCall.ret.type = "int" /\ lastCall.ret.code < 0)
        /\ lastCall.raised => lastCall.code = lastCall.ret.code
        /\ ~lastCall.raised =>
              (lastCall.ret.type = "list" /\ lastCall.list = lastCall.ret.list)

C7_Witness ==
    /\ lastCall.op = "read"
    /\ lastCall.raised
    /\ lastCall.ret.code = 0 - 3
    /\ lastCall.code = 0 - 3

\* C8: the error of a failing call names the operation that failed: read
\* for a failing read, take for a failing take.
C8_ErrorNamesOperation ==
    lastCall.raised => lastCall.msg = lastCall.op

\* C9: once construction has exited, by returning or by raising, every
\* _CQos object made for it has been destroyed.
C9_QosReleasedOnExit ==
    rstate \in {"ready", "failed"} => cqos_destroyed = cqos_acquired

\* The groups the store holds: one per source text, with the participants
\* of all its entries of that text.
StoreGroups ==
    {[code |-> src,
      pp   |-> UNION {entries[f].participants :
                         f \in {g \in DOMAIN entries : entries[g].source = src}}] :
        src \in {entries[f].source : f \in DOMAIN entries}}

ShownGroups ==
    {[code |-> console[i].code, pp |-> console[i].pp] :
        i \in {j \in DOMAIN console : console[j].kind = "group"}}

CountOf(kind) == Cardinality({i \in DOMAIN console : console[i].kind = kind})

\* C10: what typeof has printed is decided by the groups of the final
\* store: none gives the notice alone; one gives that group alone, without
\* warning; several give the warning first and then each group once.
C10_PresentationByGroups ==
    pc = "done" =>
        /\ ShownGroups = StoreGroups
        /\ CountOf("group") = Cardinality(StoreGroups)
        /\ Cardinality(StoreGroups) = 0 => console = <<Notice>>
        /\ Cardinality(StoreGroups) = 1 =>
              (CountOf("notice") = 0 /\ CountOf("warning") = 0 /\ Len(console) = 1)
        /\ Cardinality(StoreGroups) > 1 =>
              /\ console[1] = Warning
              /\ CountOf("warning") = 1
              /\ CountOf("notice") = 0
              /\ Len(console) = 1 + Cardinality(StoreGroups)

C10_Witness ==
    /\ pc = "done"
    /\ Cardinality(StoreGroups) > 1
    /\ \E i \in DOMAIN console : Cardinality(console[i].pp) > 1

\* The indices of the blocks printed for the source text src.
BlocksOf(src) ==
    {i \in DOMAIN console : console[i].kind = "group" /\ console[i].code = src}

\* C11: entries of different fingerprints with the same source text are
\* shown as one group that lists the participants of both, and when every
\* entry has the same source text no multiple-definitions warning is shown.
C11_MergedBySource ==
    pc = "done" =>
        /\ \A f, g \in DOMAIN entries :
              (f # g /\ entries[f].source = entries[g].source) =>
                 /\ Cardinality(BlocksOf(entries[f].source)) = 1
                 /\ \A i \in BlocksOf(entries[f].source) :
                       (entries[f].participants \cup entries[g].participants)
                          \subseteq console[i].pp
        /\ Cardinality({entries[f].source : f \in DOMAIN entries}) = 1 =>
              CountOf("warning") = 0

C11_Witness ==
    /\ pc = "done"
    /\ DOMAIN entries = {"X", "Y"}
    /\ entries["X"].participants = {"p1"}
    /\ entries["Y"].participants = {"p2"}
    /\ Len(console) = 1
    /\ console[1].pp = {"p1", "p2"}

C13_StoreOnlyGrows ==
    [][/\ progress' >= progress
       /\ Cardinality(DOMAIN entries') >= Cardinality(DOMAIN entries)
       /\ DOMAIN entries \subseteq DOMAIN entries'
       /\ \A f \in DOMAIN entries :
             entries[f].participants \subseteq entries'[f].participants]_vars

C13_Witness ==
    /\ Cardinality(DOMAIN entries) > 1
    /\ \E f \in DOMAIN entries : Cardinality(entries[f].participants) > 1
    /\ progress = MaxSeen

\* C14: every entry of the store has the source resolved from its
\* identifier and at least one participant; a failed resolution changes
\* neither the store nor live.result and leaves the scanner running; what
\* typeof prints holds no error, and is the notice when nothing resolved.
C14_FailedResolutionSkipped ==
    /\ [](\A f \in DOMAIN entries :
             /\ entries[f].source = SourceOf(f)
             /\ entries[f].participants # {})
    /\ [][skipped' # skipped =>
             (/\ scanner' = "running"
              /\ UNCHANGED <<entries, result, pc, console>>)]_vars
    /\ [](pc = "done" =>
             /\ \A i \in DOMAIN console :
                   console[i].kind \in {"notice", "warning", "group"}
             /\ entries = << >> => console = <<Notice>>)

C14_Witness ==
    /\ pc = "done"
    /\ 1 \in skipped
    /\ entries # << >>
    /\ Len(console) = Cardinality(StoreGroups)

\* C15: every run of typeof eventually finishes; the console is written by
\* the one presentation step only, and nothing is printed after it.
C15_TerminatesWithPresentation ==
    /\ <>(pc = "done")
    /\ [][console' # console => (pc = "presenting" /\ pc' = "done")]_vars
    /\ [][pc = "done" => (pc' = "done" /\ console' = console)]_vars

C15_Witness ==
    /\ pc = "done"
    /\ entries = << >>
    /\ progress = 0
    /\ console = <<Notice>>

\* C16: composing masks by union is associative and idempotent, and
\* {Any, Any, Any} composed with any mask, on either side, is {Any, Any, Any}.
C16_MaskUnionAlgebra ==
    mask_out.done =>
        /\ mask_out.ab_c = mask_out.a_bc
        /\ mask_out.aa = mask_in[1]
        /\ mask_out.any_a = AnyMask
        /\ mask_out.a_any = AnyMask

C16_Witness ==
    /\ mask_out.done
    /\ mask_in = << {"New", "NotRead"}, {"Old", "Alive"}, {"Read"} >>
    /\ mask_out.ab_c = {"New", "Old", "NotRead", "Read", "Alive"}
    /\ mask_out.any_a = AnyMask

\* C17: the constructor a ready reader has resolved builds records of the
\* shape its descriptor declares.
C17_ConstructorMatchesDeclaredShape ==
    rstate = "ready" => ShapeOf(_constructor) = _topic.data_type

\* The decode triple a ready reader holds.
Triple == [readfn |-> _readfn, takefn |-> _takefn, constructor |-> _constructor]

\* C18: the four descriptors have pairwise distinct handles, two of them are
\* the same topic exactly when their handles are equal, a ready reader's
\* triple is the one dispatch gives the descriptor with its topic's handle, and
\* no step after construction changes the handle or shape of the bound topic.
C18_DescriptorsByHandle ==
    /\ [](\A d, e \in Descriptors : (d = e) <=> (d._ref = e._ref))
    /\ [](rstate = "ready" =>
            \A d \in Descriptors :
                d._ref = _topic._ref => Triple = _make_constructors(d))
    /\ [](rstate # "unconstructed" => _topic \in Descriptors)
    /\ [][rstate # "unconstructed" => _topic' = _topic]_vars

C18_Witness ==
    /\ rstate = "ready"
    /\ _topic = BuiltinTopicDcpsSubscription
    /\ _topic._ref = _pseudo_handle + 4
    /\ _constructor = "endpoint_constructor"
    /\ lastCall.op = "take"
    /\ ~lastCall.raised
    /\ lastCall.list # << >>

\* C19: on every read and take the decode primitive is handed the caller's
\* max_count as given, a count of zero or less included, and the call leaves
\* the cache and yields the return value that the primitive gives for
\* that count: a status code is raised with its code, a list is returned.
C19_MaxCountPassedThrough ==
    /\ [](lastCall.op # "none" =>
            /\ lastCall.passed = lastCall.N
            /\ lastCall.raised => lastCall.code = lastCall.ret.code
            /\ ~lastCall.raised => lastCall.list = lastCall.ret.list)
    /\ [][lastCall' # lastCall =>
            \E r \in {ddspy(lastCall'.fn, lastCall'.ref, lastCall'.N,
                            _constructor, lastCall'.ret.code)} :
                /\ lastCall'.ret = r.ret
                /\ cache' = r.cache]_vars

C19_Witness ==
    /\ lastCall.op = "take"
    /\ lastCall.N <= 0
    /\ lastCall.passed = lastCall.N
    /\ ~lastCall.raised
    /\ lastCall.list = << >>
    /\ cache # << >>
====
